---- MODULE Spec2Model ----
(***************************************************************************)
(* Session core of the ElectrumX client (client.go, data.go,               *)
(* subscription.go): request-ID allocation, the pending-slot map `subs`,   *)
(* the dispatcher goroutine handleMessages/handleResponse, synchronous     *)
(* and batched calls, subscriptions, keep-alive, Close and the resume      *)
(* task, as goroutines interleaving over one Client.                       *)
(*                                                                         *)
(* Go channels are unbuffered: a send is a rendezvous with a receiver, a   *)
(* send on a closed channel and a close of a closed channel panic, and a   *)
(* receive from a closed channel yields the zero value.  A panic ends the  *)
(* process: `panicked` records it and every action is then disabled.       *)
(***************************************************************************)
EXTENDS Integers, Sequences, FiniteSets, TLC

\* ------------------------------------------------------------------ bounds
\* No more than MaxId request IDs are allocated in one behaviour.
MaxId == 3
\* A batch holds at most MaxBatch requests.
MaxBatch == 2
\* An inbound array frame holds at most MaxFrame responses.
MaxFrame == 2
\* Close is called at most MaxClose times.
MaxClose == 2
\* The transport reconnects at most MaxReconn times while calls and batches
\* run, and at most MaxResumes times in the resume scenarios.
MaxReconn == 1
MaxResumes == 2
\* In the scenarios that record the inbound frames, at most MaxInbound
\* frames arrive.
MaxInbound == 2
MaxVins == 161
MaxHash == 2

\* --------------------------------------------------------------- processes
Callers == {"c1", "c2"}
Batchers == {"b1"}
Subscribers == {"s1", "s2"}
Resumers == 1..MaxResumes

\* Method of the subscriptions (NotifyBlockHeaders) and the methods the peer
\* may put in a notification.
HeadersMethod == "blockchain.headers.subscribe"
AddressMethod == "blockchain.address.subscribe"
WireMethods == {HeadersMethod, AddressMethod}

\* ------------------------------------------------------------- wire values
\* A JSON object of an inbound frame: id and method may each be absent.
NoId == -1
NoMethod == "absent"
WireResps == [id : (0..(MaxId - 1)) \cup {NoId}, method : WireMethods \cup {NoMethod}]

\* An inbound frame, by what json.Unmarshal makes of it: a JSON object, a
\* JSON array of n objects, bytes that are no JSON value, or no bytes at all
\* (the frame held only the delimiter).
ObjectFrame == [shape |-> "object", n |-> 1]
ArrayFrame(k) == [shape |-> "array", n |-> k]
MalformedFrame == [shape |-> "malformed", n |-> 0]
EmptyFrame == [shape |-> "empty", n |-> 0]
InFrames ==
  {ObjectFrame, MalformedFrame, EmptyFrame} \cup {ArrayFrame(k) : k \in 0..MaxFrame}

\* The frames a peer answers requests with: an object, or an array of
\* objects.
ReplyFrames == {ObjectFrame} \cup {ArrayFrame(k) : k \in 1..MaxFrame}

\* A decoder that takes every frame for a single object.
FrameResponsesAsObject(f) == 1

\* A decoder that knows single objects only: an array fails to decode.
FrameResponsesObjectOnly(f) == IF f.shape = "object" THEN 1 ELSE 0

\* The number of responses handleMessages gets out of a frame
\* (client.go:257-280): json.Unmarshal(m, &result) fails on a malformed or
\* empty frame and the frame is dropped (break); an array is decoded into
\* []*response, anything else into one response.
FrameResponses(f) ==
  IF f.shape \in {"malformed", "empty"} THEN 0
  ELSE IF f.shape = "array" THEN f.n
  ELSE 1

\* The zero value `<-res` yields on a closed channel: a nil *response.
NilResp == [ID |-> -1, Method |-> "nil"]

\* json.Unmarshal into a response struct: an absent id leaves ID at the zero
\* value 0, an absent method leaves Method at "".
Decode(w) == [ID |-> IF w.id = NoId THEN 0 ELSE w.id,
              Method |-> IF w.method = NoMethod THEN "" ELSE w.method]

\* Channels are named by their maker: <<kind, maker, serial>>.
CallChan(p, id) == <<"call", p, id>>
BatchChan(b, id) == <<"batch", b, id>>
SubChan(s) == <<"sub", s, 0>>

\* ------------------------------------------------------------ wire format
\* Bytes are numbers 0..255 and byte strings are sequences of them.
delimiter == 10
comma == <<44>>
arrayStart == <<91>>
arrayEnd == <<93>>

\* Bound of the parameter lists of the requests that are encoded.
MaxParams == 2

\* A parameter: a string, an integer, a boolean, or a value json.Marshal
\* rejects (a channel, a function, a NaN).
StrParam(b) == [t |-> "string", s |-> b, n |-> 0]
IntParam(k) == [t |-> "int", s |-> <<>>, n |-> k]
BoolParam == [t |-> "bool", s |-> <<>>, n |-> 1]
BadParam == [t |-> "unsupported", s |-> <<>>, n |-> 0]
ParamValues == {StrParam(<<104, 10>>), IntParam(12), BoolParam, BadParam}

\* A []any: nil, or a slice of 0..MaxParams values.
NilSlice == [isNil |-> TRUE, elems |-> <<>>]
Slice(e) == [isNil |-> FALSE, elems |-> e]
ParamLists ==
  {NilSlice} \cup {Slice(e) : e \in UNION {[1..k -> ParamValues] : k \in 0..MaxParams}}

\* Method names: "a" and a name that holds a line feed.
MethodNames == {<<97>>, <<97, 10>>}

NoFrame == [op |-> "none", reqs |-> <<>>, bytes |-> <<>>]

RECURSIVE Concat(_)
\* The concatenation of a sequence of byte strings.
Concat(ss) == IF ss = <<>> THEN <<>> ELSE Head(ss) \o Concat(Tail(ss))

RECURSIVE Join(_, _)
\* strings.Join(ss, sep).
Join(ss, sep) ==
  IF ss = <<>> THEN <<>>
  ELSE IF Len(ss) = 1 THEN ss[1]
  ELSE ss[1] \o sep \o Join(Tail(ss), sep)

RECURSIVE IntBytes(_)
\* The decimal digits of n >= 0.
IntBytes(n) == IF n < 10 THEN <<48 + n>> ELSE IntBytes(n \div 10) \o <<48 + (n % 10)>>

\* encoding/json escapes a line feed as \n, a quote as \" and a backslash
\* as \\ inside a string.
EscapeByte(c) ==
  IF c = 10 THEN <<92, 110>>
  ELSE IF c = 34 THEN <<92, 34>>
  ELSE IF c = 92 THEN <<92, 92>>
  ELSE <<c>>

JsonString(b) == <<34>> \o Concat([i \in 1..Len(b) |-> EscapeByte(b[i])]) \o <<34>>

JsonValue(v) ==
  IF v.t = "string" THEN JsonString(v.s)
  ELSE IF v.t = "int" THEN IntBytes(v.n)
  ELSE <<116, 114, 117, 101>>

\* A nil []any is marshalled as null, a slice as an array.
JsonParams(ps) ==
  IF ps.isNil THEN <<110, 117, 108, 108>>
  ELSE <<91>> \o Join([i \in 1..Len(ps.elems) |-> JsonValue(ps.elems[i])], <<44>>) \o <<93>>

\* json.Marshal(r) fails when a parameter cannot be encoded.
Marshalable(r) == \A i \in 1..Len(r.Params.elems) : r.Params.elems[i].t # "unsupported"

\* json.Marshal(r) of a request whose RPC field is "2.0" (data.go:168-180).
Marshal(r) ==
  <<123, 34, 106, 115, 111, 110, 114, 112, 99, 34, 58, 34, 50, 46, 48, 34>> \o <<44, 34, 105, 100, 34, 58>> \o IntBytes(r.ID) \o <<44, 34, 109, 101, 116, 104, 111, 100, 34, 58>> \o JsonString(r.Method)
    \o <<44, 34, 112, 97, 114, 97, 109, 115, 34, 58>> \o JsonParams(r.Params) \o <<125>>

\* b = append(b, delimiter) (data.go:184).
EncodeTail(b) == Append(b, delimiter)

\* request.encode(): the marshalled request with the delimiter appended.
Encode(r) == EncodeTail(Marshal(r))

\* A req() that passes the parameters on as they were given.
ReqParamsAsGiven(ps) == ps

\* if len(params) == 0 { params = []any{} } (client.go:219-221).
ReqParams(ps) == IF Len(ps.elems) = 0 THEN Slice(<<>>) ELSE ps

\* The request req(name, params...) builds with ID id.
Request(id, name, ps) == [ID |-> id, Method |-> name, Params |-> ReqParams(ps)]

\* syncRequest: b, err := req.encode(); b = append(b, delimiter)
\* (client.go:410-415).
SyncRequestFrame(r) == Append(Encode(r), delimiter)

\* encodeBatch (client.go:428-440).
EncodeBatch(rs) ==
  arrayStart \o Join([i \in 1..Len(rs) |-> Encode(rs[i])], comma) \o arrayEnd

\* syncBatchRequest: b, err := encodeBatch(reqs); b = append(b, delimiter)
\* (client.go:455-460).
SyncBatchFrame(rs) == Append(EncodeBatch(rs), delimiter)

\* ------------------------------------------- caller-facing operations
\* An error value: nil, or an error with a message (errors.New("") is not
\* nil).
NilErr == [isNil |-> TRUE, msg |-> ""]
ErrorsNew(m) == [isNil |-> FALSE, msg |-> m]

ErrUnavailableMethod == ErrorsNew("UNAVAILABLE_METHOD")
ErrRejectedTx == ErrorsNew("REJECTED_TRANSACTION")

Protocol10 == "1.0"
Protocol11 == "1.1"
Protocol12 == "1.2"
Protocol14 == "1.4"
Protocol14_2 == "1.4.2"
Protocols == {Protocol10, Protocol11, Protocol12, Protocol14, Protocol14_2}

\* response.Error: nil, or the decoded error object.
NoRpcError == [isNil |-> TRUE, Code |-> 0, Message |-> ""]
RpcError(c, m) == [isNil |-> FALSE, Code |-> c, Message |-> m]
RpcErrors == {NoRpcError} \cup {RpcError(c, m) : c \in {1, 2}, m \in {"", "unknown method", "bad-txns-inputs-missingorspent"}}

\* response.Result: nil, a string, or a value that is no string.
NilResult == [t |-> "nil", s |-> ""]
StrResult(s) == [t |-> "string", s |-> s]
NumResult == [t |-> "number", s |-> ""]
RejectedText == "the transaction was rejected by network rules."
Results == {NilResult, StrResult("0200000001"), StrResult(RejectedText), NumResult}

\* What syncRequest returns: (res, err), res being nil or a response.
NilCallResp == [isNil |-> TRUE, Error |-> NoRpcError, Result |-> NilResult]
CallResp(e, r) == [isNil |-> FALSE, Error |-> e, Result |-> r]
SyncReturns ==
  {[res |-> CallResp(e, r), err |-> NilErr] : e \in RpcErrors, r \in Results}
    \cup {[res |-> NilCallResp, err |-> ErrorsNew(m)] : m \in {"write: broken pipe", "json: unsupported type"}}
    \cup {[res |-> NilCallResp, err |-> NilErr]}

ScriptHashes == {"8b01df4e"}

\* What an operation hands back: a result (absent, or a value), an error,
\* or a runtime panic.
NoResult == [t |-> "none", s |-> ""]
Returns(result, err) == [result |-> result, err |-> err, panic |-> ""]
Panics(why) == [result |-> NoResult, err |-> NilErr, panic |-> why]
NoReturn == [op |-> "none", sr |-> [res |-> NilCallResp, err |-> NilErr], rv |-> Returns(NoResult, NilErr)]

\* A check that finds "rejected" in no text.
ContainsRejectedNever(s) == FALSE

\* strings.Contains(s, "rejected"), on the result texts above.
ContainsRejected(s) == s = RejectedText

\* res.Result.(string): the assertion panics on nil and on a non-string.
ResultString(sr, op) ==
  IF sr.res.Result.t = "string"
    THEN Returns(sr.res.Result, NilErr)
    ELSE Panics(op \o ": interface conversion: interface {} is not string")

\* return "", errors.New(res.Error.Message) (client.go:567-569, 815-817).
ServerError(sr) == Returns(NoResult, ErrorsNew(sr.res.Error.Message))

\* ServerPing (client.go:500-518).
ServerPing(protocol, sr) ==
  IF protocol \in {Protocol12, Protocol14, Protocol14_2}
    THEN IF ~sr.err.isNil THEN Returns(NoResult, sr.err)
         ELSE IF sr.res.isNil THEN Panics("ServerPing: nil pointer dereference")
         ELSE IF ~sr.res.Error.isNil THEN ServerError(sr)
         ELSE Returns(NoResult, NilErr)
    ELSE Returns(NoResult, ErrUnavailableMethod)

\* ServerBanner (client.go:561-572).
ServerBanner(sr) ==
  IF ~sr.err.isNil THEN Returns(NoResult, sr.err)
  ELSE IF sr.res.isNil THEN Panics("ServerBanner: nil pointer dereference")
  ELSE IF ~sr.res.Error.isNil THEN ServerError(sr)
  ELSE ResultString(sr, "ServerBanner")

\* GetTransaction (client.go:809-820).
GetTransaction(sr) ==
  IF ~sr.err.isNil THEN Returns(NoResult, sr.err)
  ELSE IF sr.res.isNil THEN Panics("GetTransaction: nil pointer dereference")
  ELSE IF ~sr.res.Error.isNil THEN ServerError(sr)
  ELSE ResultString(sr, "GetTransaction")

\* BroadcastTransaction (client.go:793-804): res.Error is not looked at.
BroadcastTransaction(sr) ==
  IF ~sr.err.isNil THEN Returns(NoResult, sr.err)
  ELSE IF sr.res.isNil THEN Panics("BroadcastTransaction: nil pointer dereference")
  ELSE IF sr.res.Result.t = "nil" THEN Returns(NoResult, ErrRejectedTx)
  ELSE IF sr.res.Result.t # "string"
         THEN Panics("BroadcastTransaction: interface conversion: interface {} is not string")
  ELSE IF ContainsRejected(sr.res.Result.s) THEN Returns(NoResult, ErrRejectedTx)
  ELSE Returns(sr.res.Result, NilErr)

\* fmt.Errorf("error getting balance for scripthash %s: %w", scriptHash, err).
BalanceErrorf(h, err) ==
  ErrorsNew("error getting balance for scripthash " \o h \o ": " \o err.msg)

\* ScriptHashBalance (client.go:662-686); the result is kept as decoded.
ScriptHashBalance(h, sr) ==
  IF ~sr.err.isNil THEN Returns(NoResult, BalanceErrorf(h, sr.err))
  ELSE IF sr.res.isNil THEN Panics("ScriptHashBalance: nil pointer dereference")
  ELSE IF ~sr.res.Error.isNil
         THEN Returns(NoResult, BalanceErrorf(h, ErrorsNew(sr.res.Error.Message)))
  ELSE Returns(sr.res.Result, NilErr)

VARIABLES
  counter,    \* Client.counter
  subs,       \* Client.subs: request ID -> [messages, method]
  closed,     \* the channels that have been closed
  mu,         \* holder of Client.Mutex, or "free"
  conn,       \* transport: "connected" | "disconnected" | "closed"
  done,       \* Client.done has been closed
  bgDone,     \* Client.cleanUp has run (bgProcessing is cancelled)
  panicked,   \* "" or the runtime panic that ended the process
  allocated,  \* history: the IDs req() handed out, in allocation order
  ncloses,    \* number of Close calls made
  nreconn,    \* number of reconnections made
  cpc, cid, cres,                   \* callers (syncRequest)
  bpc, bn, bids, bresp, bcount, brecv, bcur, berr,  \* batch callers
  spc, sid, serr, hpc, ctxDone, upc, \* subscriptions, handler loops, users
  kapc,                              \* keep-alive goroutine
  stateEvt, mpc, rpc,                \* transport-state monitor and resume tasks
  dpc, dleft, dresp, dch, dtodo, dsnap, \* dispatcher (handleMessages)
  wreqs,      \* requests built by req() whose frame is not yet sent
  out,        \* the frame last handed to transport.sendMessage
  kaIds,      \* history: the IDs req() handed to the keep-alive goroutine
  dlog,       \* history: the inbound frames handleMessages has taken
  ret         \* what the caller-facing operation last run has returned

vars == <<counter, subs, closed, mu, conn, done, bgDone, panicked, allocated,
          ncloses, nreconn, cpc, cid, cres,
          bpc, bn, bids, bresp, bcount, brecv, bcur, berr,
          spc, sid, serr, hpc, ctxDone, upc, kapc, stateEvt, mpc, rpc,
          dpc, dleft, dresp, dch, dtodo, dsnap, wreqs, out, kaIds, dlog, ret>>

coreVars == <<counter, subs, closed, mu, conn, done, bgDone, panicked, allocated>>
callVars == <<cpc, cid, cres>>
batchVars == <<bpc, bn, bids, bresp, bcount, brecv, bcur, berr>>
subVars == <<spc, sid, serr, hpc, ctxDone, upc>>
resumeVars == <<kapc, stateEvt, mpc, rpc, nreconn>>
dispVars == <<dpc, dleft, dresp, dch, dtodo, dsnap>>
wireVars == <<wreqs, out, kaIds, dlog, ret>>

Running == panicked = ""
Free == mu = "free"

\* ------------------------------------------------------------------- Init
\* New(): counter 0, empty subs, transport dialled, goroutines started.
Init ==
  /\ counter = 0 /\ subs = <<>> /\ closed = {} /\ mu = "free"
  /\ conn = "connected" /\ done = FALSE /\ bgDone = FALSE /\ panicked = ""
  /\ allocated = <<>> /\ ncloses = 0 /\ nreconn = 0
  /\ cpc = [p \in Callers |-> "idle"]
  /\ cid = [p \in Callers |-> -1]
  /\ cres = [p \in Callers |-> [resp |-> NilResp, err |-> ""]]
  /\ bpc = [b \in Batchers |-> "idle"]
  /\ bn = [b \in Batchers |-> 0]
  /\ bids = [b \in Batchers |-> <<>>]
  /\ bresp = [b \in Batchers |-> <<>>]
  /\ bcount = [b \in Batchers |-> 0]
  /\ brecv = [b \in Batchers |-> <<>>]
  /\ bcur = [b \in Batchers |-> NilResp]
  /\ berr = [b \in Batchers |-> ""]
  /\ spc = [s \in Subscribers |-> "idle"]
  /\ sid = [s \in Subscribers |-> -1]
  /\ serr = [s \in Subscribers |-> ""]
  /\ hpc = [s \in Subscribers |-> "none"]
  /\ ctxDone = [s \in Subscribers |-> FALSE]
  /\ upc = [s \in Subscribers |-> "none"]
  /\ kapc = "run" /\ mpc = "run"
  /\ stateEvt = 0
  /\ rpc = [r \in Resumers |-> "none"]
  /\ dpc = "select" /\ dleft = 0 /\ dresp = NilResp
  /\ dch = <<"none", "", 0>> /\ dtodo = {} /\ dsnap = {}
  /\ wreqs = <<>> /\ out = NoFrame
  /\ kaIds = {} /\ dlog = <<>> /\ ret = NoReturn

\* --------------------------------------------------------------- Client.req
\* A counter that req() forgets to increment.
NextCounterStuck(c) == c

\* c.counter++ (client.go:227).
NextCounter(c) == c + 1

\* req(): under the mutex, take ID = counter and increment the counter.
\* The conjunct below is the state change of one req() call.
Req(id) ==
  /\ Running /\ Free
  /\ counter < MaxId
  /\ id = counter
  /\ counter' = NextCounter(counter)
  /\ allocated' = Append(allocated, id)

\* ------------------------------------------------- Client.removeSubscription
Without(S, id) == [k \in (DOMAIN S) \ {id} |-> S[k]]

\* A removal that closes the channel but leaves the entry in the map.
DeleteSlotKeep(S, id) == S

\* A removal that empties the whole map.
DeleteSlotAll(S, id) == <<>>

\* delete(c.subs, id) (client.go:319).
DeleteSlot(S, id) == Without(S, id)

\* removeSubscription(id): under the mutex, close the slot's channel and
\* delete the entry, if present.  close() of a closed channel panics.
RemoveSubscription(id) ==
  IF id \in DOMAIN subs
    THEN IF subs[id].messages \in closed
           THEN /\ panicked' = "removeSubscription: close of closed channel"
                /\ UNCHANGED <<subs, closed>>
           ELSE /\ closed' = closed \cup {subs[id].messages}
                /\ subs' = DeleteSlot(subs, id)
                /\ UNCHANGED panicked
    ELSE UNCHANGED <<subs, closed, panicked>>


\* ------------------------------------------------------------- dispatcher
NoChan == <<"none", "", 0>>

\* The dispatcher has finished with the current response of the frame:
\* the loop `for _, resp := range responses` goes on, or back to select.
DispPop ==
  /\ dleft' = dleft - 1
  /\ dpc' = IF dleft = 1 THEN "select" ELSE "route"
  /\ dresp' = NilResp /\ dch' = NoChan

\* A receive that takes a value sent on any channel.
DispSendingAny(ch) == dpc \in {"send", "nsend"} /\ dch \notin closed

\* The dispatcher's blocking send `sub.messages <- resp` is taken by a
\* receiver.  After an id-routed send the loop goes on; after a
\* method-routed send (made with the mutex held) the iteration over subs
\* goes on with the next matching slot, or unlocks.
DispSending(ch) == dpc \in {"send", "nsend"} /\ dch = ch /\ ch \notin closed

DispAfterSend ==
  IF dpc = "send"
    THEN DispPop /\ UNCHANGED <<mu, dtodo>>
    ELSE IF dtodo = {}
           THEN DispPop /\ mu' = "free" /\ UNCHANGED dtodo
           ELSE \E id \in dtodo :
                  /\ dch' = subs[id].messages
                  /\ dtodo' = dtodo \ {id}
                  /\ UNCHANGED <<mu, dpc, dleft, dresp>>

\* case m := <-c.transport.messages: the frame decodes to 1..MaxFrame
\* responses (a single object, or an array).
DispRecvFrame ==
  /\ Running /\ dpc = "select" /\ conn = "connected"
  /\ \E n \in 1..MaxFrame : dleft' = n
  /\ dpc' = "route"
  /\ UNCHANGED <<wireVars, coreVars, ncloses, callVars, batchVars, subVars, resumeVars,
                 dresp, dch, dtodo, dsnap>>

\* case m := <-c.transport.messages, for the frame f: the responses decoded
\* from it are handled one by one; a frame that yields none leaves the
\* dispatcher at its select.
DispRecvShaped(f) ==
  /\ Running /\ dpc = "select" /\ conn = "connected"
  /\ Len(dlog) < MaxInbound
  /\ dlog' = Append(dlog, f)
  /\ dleft' = FrameResponses(f)
  /\ dpc' = IF FrameResponses(f) = 0 THEN "select" ELSE "route"
  /\ UNCHANGED <<wreqs, out, kaIds, ret, coreVars, ncloses, callVars, batchVars, subVars,
                 resumeVars, dresp, dch, dtodo, dsnap>>

\* A lookup that ignores the response's ID and takes any registered slot.
LookupSlotAny(S, resp) == {S[k].messages : k \in DOMAIN S}

\* sub, ok := c.subs[resp.ID] (client.go:305): the slot an id-routed
\* response goes to; {} when none is registered.
LookupSlot(S, resp) == IF resp.ID \in DOMAIN S THEN {S[resp.ID].messages} ELSE {}

\* handleResponse, message routed by ID: lookup under the mutex, unlock,
\* then send.
DispRouteById ==
  /\ Running /\ Free /\ dpc = "route"
  /\ \E w \in WireResps :
       LET resp == Decode(w) IN
       /\ resp.Method = ""
       /\ IF LookupSlot(subs, resp) # {}
            THEN /\ dpc' = "send"
                 /\ dch' = CHOOSE ch \in LookupSlot(subs, resp) : TRUE
                 /\ dresp' = resp
                 /\ UNCHANGED dleft
            ELSE DispPop
  /\ UNCHANGED <<wireVars, coreVars, ncloses, callVars, batchVars, subVars, resumeVars,
                 dtodo, dsnap>>

\* A notification that is sent to every slot.
MatchingAll(S, resp) == DOMAIN S

\* The slots a notification is sent to: sub.method == resp.Method
\* (client.go:293-297).
Matching(S, resp) == {id \in DOMAIN S : S[id].method = resp.Method}

\* handleResponse, message routed by method name: the mutex is held over the
\* whole iteration, sends included.
DispRouteNotify ==
  /\ Running /\ Free /\ dpc = "route"
  /\ \E w \in WireResps :
       LET resp == Decode(w) IN
       /\ resp.Method # ""
       /\ IF Matching(subs, resp) = {}
            THEN DispPop /\ UNCHANGED <<mu, dtodo>>
            ELSE \E id \in Matching(subs, resp) :
                   /\ mu' = "dispatcher"
                   /\ dpc' = "nsend"
                   /\ dch' = subs[id].messages
                   /\ dtodo' = Matching(subs, resp) \ {id}
                   /\ dresp' = resp
                   /\ UNCHANGED dleft
  /\ UNCHANGED <<wireVars, counter, subs, closed, conn, done, bgDone, panicked, allocated,
                 ncloses, callVars, batchVars, subVars, resumeVars, dsnap>>

\* A send on a closed channel (closed before or while the send blocks).
DispSendPanic ==
  /\ Running /\ dpc \in {"send", "nsend"} /\ dch \in closed
  /\ panicked' = "handleResponse: send on closed channel"
  /\ UNCHANGED <<wireVars, counter, subs, closed, mu, conn, done, bgDone, allocated,
                 ncloses, callVars, batchVars, subVars, resumeVars, dispVars>>

\* case <-c.done: start `for id := range c.subs` (the map is read without
\* the mutex).
DispDone ==
  /\ Running /\ dpc = "select" /\ done
  /\ dpc' = "closing"
  /\ dsnap' = DOMAIN subs
  /\ UNCHANGED <<wireVars, coreVars, ncloses, callVars, batchVars, subVars, resumeVars,
                 dleft, dresp, dch, dtodo>>

\* One iteration of the loop: c.removeSubscription(id).  An entry deleted
\* before it is reached is not produced; one added meanwhile may be.
DispCloseNext ==
  /\ Running /\ Free /\ dpc = "closing"
  /\ \E id \in DOMAIN subs :
       /\ RemoveSubscription(id)
       /\ dsnap' = dsnap \ {id}
  /\ UNCHANGED <<wireVars, counter, mu, conn, done, bgDone, allocated,
                 ncloses, callVars, batchVars, subVars, resumeVars,
                 dpc, dleft, dresp, dch, dtodo>>

\* The loop is over: c.cleanUp(); return.
DispCloseExit ==
  /\ Running /\ dpc = "closing"
  /\ dsnap \cap DOMAIN subs = {}
  /\ bgDone' = TRUE
  /\ dpc' = "exited"
  /\ dsnap' = {}
  /\ UNCHANGED <<wireVars, counter, subs, closed, mu, conn, done, panicked, allocated,
                 ncloses, callVars, batchVars, subVars, resumeVars,
                 dleft, dresp, dch, dtodo>>

\* ------------------------------------------------------------ Client.Close
\* c.transport.close(); close(c.done).  Closing c.done again panics.
Close ==
  /\ Running /\ ncloses < MaxClose
  /\ ncloses' = ncloses + 1
  /\ conn' = "closed"
  /\ IF done
       THEN panicked' = "Close: close of closed channel" /\ UNCHANGED done
       ELSE done' = TRUE /\ UNCHANGED panicked
  /\ UNCHANGED <<wireVars, counter, subs, closed, mu, bgDone, allocated,
                 callVars, batchVars, subVars, resumeVars, dispVars>>

\* The first call of Close on the Client.
FirstClose == ~done /\ Close

\* ------------------------------------------------------ Client.syncRequest
Slot(ch, m) == [messages |-> ch, method |-> m]

\* c.req(...) evaluated as the argument of syncRequest.
CallReq(p) ==
  /\ cpc[p] \in {"idle", "ret"}
  /\ \E id \in 0..(MaxId - 1) :
       /\ Req(id)
       /\ cid' = [cid EXCEPT ![p] = id]
  /\ cpc' = [cpc EXCEPT ![p] = "reg"]
  /\ cres' = [cres EXCEPT ![p] = [resp |-> NilResp, err |-> ""]]
  /\ UNCHANGED <<wireVars, subs, closed, mu, conn, done, bgDone, panicked,
                 ncloses, batchVars, subVars, resumeVars, dispVars>>

\* c.subs[req.ID] = &subscription{messages: res}, under the mutex.
CallRegister(p) ==
  /\ Running /\ Free /\ cpc[p] = "reg"
  /\ subs' = [k \in (DOMAIN subs) \cup {cid[p]} |->
                IF k = cid[p] THEN Slot(CallChan(p, cid[p]), "") ELSE subs[k]]
  /\ cpc' = [cpc EXCEPT ![p] = "send"]
  /\ UNCHANGED <<wireVars, counter, closed, mu, conn, done, bgDone, panicked, allocated,
                 ncloses, cid, cres, batchVars, subVars, resumeVars, dispVars>>

\* req.encode() fails (a parameter json.Marshal cannot encode): return err.
CallEncodeFail(p) ==
  /\ Running /\ cpc[p] = "send"
  /\ cpc' = [cpc EXCEPT ![p] = "unreg"]
  /\ cres' = [cres EXCEPT ![p] = [resp |-> NilResp, err |-> "encode"]]
  /\ UNCHANGED <<wireVars, coreVars, ncloses, cid, batchVars, subVars, resumeVars, dispVars>>

\* c.transport.sendMessage(b) fails: the connection is not open.
CallSendFail(p) ==
  /\ Running /\ cpc[p] = "send" /\ conn # "connected"
  /\ cpc' = [cpc EXCEPT ![p] = "unreg"]
  /\ cres' = [cres EXCEPT ![p] = [resp |-> NilResp, err |-> "transport"]]
  /\ UNCHANGED <<wireVars, coreVars, ncloses, cid, batchVars, subVars, resumeVars, dispVars>>

\* c.transport.sendMessage(b) succeeds: wait on `<-res`.
CallSendOk(p) ==
  /\ Running /\ cpc[p] = "send" /\ conn = "connected"
  /\ cpc' = [cpc EXCEPT ![p] = "wait"]
  /\ UNCHANGED <<wireVars, coreVars, ncloses, cid, cres, batchVars, subVars, resumeVars, dispVars>>

\* return <-res, nil: the value the dispatcher sends.
CallRecv(p) ==
  /\ Running /\ cpc[p] = "wait"
  /\ DispSending(CallChan(p, cid[p]))
  /\ cres' = [cres EXCEPT ![p] = [resp |-> dresp, err |-> ""]]
  /\ cpc' = [cpc EXCEPT ![p] = "unreg"]
  /\ DispAfterSend
  /\ UNCHANGED <<wireVars, counter, subs, closed, conn, done, bgDone, panicked, allocated,
                 ncloses, cid, batchVars, subVars, resumeVars, dsnap>>

\* return <-res, nil on a closed channel: a nil response and a nil error.
CallRecvClosed(p) ==
  /\ Running /\ cpc[p] = "wait"
  /\ CallChan(p, cid[p]) \in closed
  /\ cres' = [cres EXCEPT ![p] = [resp |-> NilResp, err |-> ""]]
  /\ cpc' = [cpc EXCEPT ![p] = "unreg"]
  /\ UNCHANGED <<wireVars, coreVars, ncloses, cid, batchVars, subVars, resumeVars, dispVars>>

\* defer c.removeSubscription(req.ID), then the call has returned.
CallUnreg(p) ==
  /\ Running /\ Free /\ cpc[p] = "unreg"
  /\ RemoveSubscription(cid[p])
  /\ cpc' = [cpc EXCEPT ![p] = "ret"]
  /\ UNCHANGED <<wireVars, counter, mu, conn, done, bgDone, allocated,
                 ncloses, cid, cres, batchVars, subVars, resumeVars, dispVars>>

\* ------------------------------------------- Client.syncBatchRequest
\* Index of id in the batch's requests: reqMap[req.ID] = i (client.go:450).
ReqMap(ids, id) == CHOOSE i \in 1..Len(ids) : ids[i] = id

\* A batch that stores the responses in their order of arrival.
PlaceByArrival(responses, ids, resp, count) ==
  [responses EXCEPT ![count + 1] = resp]

\* responses[reqMap[resp.ID]] = resp (client.go:478).
Place(responses, ids, resp, count) ==
  [responses EXCEPT ![ReqMap(ids, resp.ID)] = resp]

\* The channel `res` of the batch that b is running.
BChan(b) == BatchChan(b, IF bids[b] = <<>> THEN -1 ELSE bids[b][1])

\* batchReq: requests := make([]*request, len(params)).
BatchStart(b) ==
  /\ Running /\ bpc[b] \in {"idle", "ret"}
  /\ counter < MaxId
  /\ \E n \in 0..MaxBatch : bn' = [bn EXCEPT ![b] = n]
  /\ bpc' = [bpc EXCEPT ![b] = "req"]
  /\ bids' = [bids EXCEPT ![b] = <<>>]
  /\ bresp' = [bresp EXCEPT ![b] = <<>>]
  /\ bcount' = [bcount EXCEPT ![b] = 0]
  /\ brecv' = [brecv EXCEPT ![b] = <<>>]
  /\ berr' = [berr EXCEPT ![b] = ""]
  /\ UNCHANGED <<wireVars, coreVars, ncloses, callVars, bcur, subVars, resumeVars, dispVars>>

\* batchReq: requests[i] = c.req(name, p...), one req() per element.
BatchReq(b) ==
  /\ bpc[b] = "req" /\ Len(bids[b]) < bn[b]
  /\ \E id \in 0..(MaxId - 1) :
       /\ Req(id)
       /\ bids' = [bids EXCEPT ![b] = Append(@, id)]
  /\ UNCHANGED <<wireVars, subs, closed, mu, conn, done, bgDone, panicked, ncloses, callVars,
                 bpc, bn, bresp, bcount, brecv, bcur, berr,
                 subVars, resumeVars, dispVars>>

\* Under the mutex, every ID of the batch is registered with the one
\* shared channel res.
BatchRegister(b) ==
  /\ Running /\ Free /\ bpc[b] = "req" /\ Len(bids[b]) = bn[b]
  /\ LET ids == {bids[b][i] : i \in 1..Len(bids[b])} IN
     subs' = [k \in (DOMAIN subs) \cup ids |->
                IF k \in ids THEN Slot(BChan(b), "") ELSE subs[k]]
  /\ bpc' = [bpc EXCEPT ![b] = "send"]
  /\ UNCHANGED <<wireVars, counter, closed, mu, conn, done, bgDone, panicked, allocated,
                 ncloses, callVars, bn, bids, bresp, bcount, brecv, bcur, berr,
                 subVars, resumeVars, dispVars>>

\* encodeBatch fails: return nil, err (nothing is unregistered).
BatchEncodeFail(b) ==
  /\ Running /\ bpc[b] = "send" /\ bn[b] > 0
  /\ bpc' = [bpc EXCEPT ![b] = "ret"]
  /\ berr' = [berr EXCEPT ![b] = "encode"]
  /\ UNCHANGED <<wireVars, coreVars, ncloses, callVars, bn, bids, bresp, bcount, brecv, bcur,
                 subVars, resumeVars, dispVars>>

\* sendMessage fails: return nil, err (nothing is unregistered).
BatchSendFail(b) ==
  /\ Running /\ bpc[b] = "send" /\ conn # "connected"
  /\ bpc' = [bpc EXCEPT ![b] = "ret"]
  /\ berr' = [berr EXCEPT ![b] = "transport"]
  /\ UNCHANGED <<wireVars, coreVars, ncloses, callVars, bn, bids, bresp, bcount, brecv, bcur,
                 subVars, resumeVars, dispVars>>

\* sendMessage succeeds: responses := make([]*response, len(reqs)).
BatchSendOk(b) ==
  /\ Running /\ bpc[b] = "send" /\ conn = "connected"
  /\ bpc' = [bpc EXCEPT ![b] = "wait"]
  /\ bresp' = [bresp EXCEPT ![b] = [i \in 1..bn[b] |-> NilResp]]
  /\ UNCHANGED <<wireVars, coreVars, ncloses, callVars, bn, bids, bcount, brecv, bcur, berr,
                 subVars, resumeVars, dispVars>>

\* for resp := range res: one response is received.
BatchRecv(b) ==
  /\ Running /\ bpc[b] = "wait"
  /\ DispSending(BChan(b))
  /\ bcur' = [bcur EXCEPT ![b] = dresp]
  /\ brecv' = [brecv EXCEPT ![b] = Append(@, dresp.ID)]
  /\ bpc' = [bpc EXCEPT ![b] = "got"]
  /\ DispAfterSend
  /\ UNCHANGED <<wireVars, counter, subs, closed, conn, done, bgDone, panicked, allocated,
                 ncloses, callVars, bn, bids, bresp, bcount, berr,
                 subVars, resumeVars, dsnap>>

\* Loop body: delete(c.subs, resp.ID) under the mutex, store the response,
\* count it, and close(res) when respCount == len(reqs).
BatchStore(b) ==
  /\ Running /\ Free /\ bpc[b] = "got"
  /\ subs' = DeleteSlot(subs, bcur[b].ID)
  /\ bresp' = [bresp EXCEPT ![b] = Place(@, bids[b], bcur[b], bcount[b])]
  /\ bcount' = [bcount EXCEPT ![b] = @ + 1]
  /\ bcur' = [bcur EXCEPT ![b] = NilResp]
  /\ bpc' = [bpc EXCEPT ![b] = "wait"]
  /\ IF bcount[b] + 1 = bn[b]
       THEN IF BChan(b) \in closed
              THEN panicked' = "syncBatchRequest: close of closed channel" /\ UNCHANGED closed
              ELSE closed' = closed \cup {BChan(b)} /\ UNCHANGED panicked
       ELSE UNCHANGED <<closed, panicked>>
  /\ UNCHANGED <<wireVars, counter, mu, conn, done, bgDone, allocated,
                 ncloses, callVars, bn, bids, brecv, berr,
                 subVars, resumeVars, dispVars>>

\* The range ends because res is closed: return responses, nil.
BatchReturn(b) ==
  /\ Running /\ bpc[b] = "wait"
  /\ BChan(b) \in closed
  /\ bpc' = [bpc EXCEPT ![b] = "ret"]
  /\ UNCHANGED <<wireVars, coreVars, ncloses, callVars, bn, bids, bresp, bcount, brecv, bcur, berr,
                 subVars, resumeVars, dispVars>>

\* ------------------------------- NotifyBlockHeaders / startSubscription
\* startSubscription: go (handler loop); req := c.req(sub.method, ...).
SubReq(s) ==
  /\ spc[s] = "idle"
  /\ \E id \in 0..(MaxId - 1) :
       /\ Req(id)
       /\ sid' = [sid EXCEPT ![s] = id]
  /\ spc' = [spc EXCEPT ![s] = "reg"]
  /\ hpc' = [hpc EXCEPT ![s] = "select"]
  /\ UNCHANGED <<wireVars, subs, closed, mu, conn, done, bgDone, panicked, ncloses,
                 callVars, batchVars, serr, ctxDone, upc, resumeVars, dispVars>>

\* c.subs[req.ID] = sub, under the mutex.
SubRegister(s) ==
  /\ Running /\ Free /\ spc[s] = "reg"
  /\ subs' = [k \in (DOMAIN subs) \cup {sid[s]} |->
                IF k = sid[s] THEN Slot(SubChan(s), HeadersMethod) ELSE subs[k]]
  /\ spc' = [spc EXCEPT ![s] = "send"]
  /\ UNCHANGED <<wireVars, counter, closed, mu, conn, done, bgDone, panicked, allocated,
                 ncloses, callVars, batchVars, sid, serr, hpc, ctxDone, upc,
                 resumeVars, dispVars>>

\* sendMessage succeeds: NotifyBlockHeaders returns the stream.
SubSendOk(s) ==
  /\ Running /\ spc[s] = "send" /\ conn = "connected"
  /\ spc' = [spc EXCEPT ![s] = "ok"]
  /\ upc' = [upc EXCEPT ![s] = "reading"]
  /\ UNCHANGED <<wireVars, coreVars, ncloses, callVars, batchVars, sid, serr, hpc, ctxDone,
                 resumeVars, dispVars>>

\* sendMessage fails: c.removeSubscription(req.ID) comes next.
SubSendFail(s) ==
  /\ Running /\ spc[s] = "send" /\ conn # "connected"
  /\ spc' = [spc EXCEPT ![s] = "unreg"]
  /\ serr' = [serr EXCEPT ![s] = "transport"]
  /\ UNCHANGED <<wireVars, coreVars, ncloses, callVars, batchVars, sid, hpc, ctxDone, upc,
                 resumeVars, dispVars>>

\* c.removeSubscription(req.ID); return err; the caller closes its stream.
SubUnreg(s) ==
  /\ Running /\ Free /\ spc[s] = "unreg"
  /\ RemoveSubscription(sid[s])
  /\ spc' = [spc EXCEPT ![s] = "failed"]
  /\ UNCHANGED <<wireVars, counter, mu, conn, done, bgDone, allocated, ncloses,
                 callVars, batchVars, sid, serr, hpc, ctxDone, upc,
                 resumeVars, dispVars>>

\* Handler loop: case msg, ok := <-sub.messages with ok.
HandlerRecv(s) ==
  /\ Running /\ hpc[s] = "select"
  /\ DispSending(SubChan(s))
  /\ hpc' = [hpc EXCEPT ![s] = "handling"]
  /\ DispAfterSend
  /\ UNCHANGED <<wireVars, counter, subs, closed, conn, done, bgDone, panicked, allocated,
                 ncloses, callVars, batchVars, spc, sid, serr, ctxDone, upc,
                 resumeVars, dsnap>>

\* Handler loop: the messages channel is closed: return.
HandlerClosed(s) ==
  /\ Running /\ hpc[s] = "select"
  /\ SubChan(s) \in closed
  /\ hpc' = [hpc EXCEPT ![s] = "exited"]
  /\ UNCHANGED <<wireVars, coreVars, ncloses, callVars, batchVars, spc, sid, serr, ctxDone, upc,
                 resumeVars, dispVars>>

\* Handler loop: case <-sub.ctx.Done(): return.
HandlerCtx(s) ==
  /\ Running /\ hpc[s] = "select"
  /\ ctxDone[s]
  /\ hpc' = [hpc EXCEPT ![s] = "exited"]
  /\ UNCHANGED <<wireVars, coreVars, ncloses, callVars, batchVars, spc, sid, serr, ctxDone, upc,
                 resumeVars, dispVars>>

\* sub.handler(msg): `headers <- h` is taken by the user reading the stream.
HandlerEmit(s) ==
  /\ Running /\ hpc[s] = "handling"
  /\ spc[s] = "ok" /\ upc[s] = "reading"
  /\ hpc' = [hpc EXCEPT ![s] = "select"]
  /\ UNCHANGED <<wireVars, coreVars, ncloses, callVars, batchVars, spc, sid, serr, ctxDone, upc,
                 resumeVars, dispVars>>

\* sub.handler(msg) after NotifyBlockHeaders failed and did close(headers):
\* `headers <- h` is a send on a closed channel.
HandlerEmitPanic ==
  /\ Running
  /\ \E s \in Subscribers : hpc[s] = "handling" /\ spc[s] = "failed"
  /\ panicked' = "handler: send on closed channel"
  /\ UNCHANGED <<wireVars, counter, subs, closed, mu, conn, done, bgDone, allocated,
                 ncloses, callVars, batchVars, subVars, resumeVars, dispVars>>

\* The user cancels the subscription's context.
CtxCancel(s) ==
  /\ Running /\ spc[s] = "ok" /\ ~ctxDone[s]
  /\ ctxDone' = [ctxDone EXCEPT ![s] = TRUE]
  /\ UNCHANGED <<wireVars, coreVars, ncloses, callVars, batchVars, spc, sid, serr, hpc, upc,
                 resumeVars, dispVars>>

\* The user's loop takes case <-ctx.Done() and stops reading the stream.
UserLeave(s) ==
  /\ Running /\ upc[s] = "reading" /\ ctxDone[s]
  /\ upc' = [upc EXCEPT ![s] = "gone"]
  /\ UNCHANGED <<wireVars, coreVars, ncloses, callVars, batchVars, spc, sid, serr, hpc, ctxDone,
                 resumeVars, dispVars>>

\* ------------------------------------------------------------- keep-alive
\* case <-client.ping.C: client.req("server.version", ...).encode() and
\* sendMessage; no slot is registered and a send error is only logged.
KeepAliveTick ==
  /\ kapc = "run"
  /\ \E id \in 0..(MaxId - 1) :
       /\ Req(id)
       /\ kaIds' = kaIds \cup {id}
  /\ UNCHANGED <<wreqs, out, dlog, ret, subs, closed, mu, conn, done, bgDone, panicked, ncloses,
                 callVars, batchVars, subVars, resumeVars, dispVars>>

\* case <-client.bgProcessing.Done(): return.
KeepAliveExit ==
  /\ Running /\ kapc = "run" /\ bgDone
  /\ kapc' = "exited"
  /\ UNCHANGED <<wireVars, coreVars, ncloses, callVars, batchVars, subVars,
                 stateEvt, mpc, rpc, nreconn, dispVars>>

\* ------------------------------------------------- transport connectivity
\* A read or write fails: the transport is Disconnected and redials; this
\* happens at most n times.
DisconnectWithin(n) ==
  /\ Running /\ conn = "connected" /\ nreconn < n
  /\ conn' = "disconnected"
  /\ UNCHANGED <<wireVars, counter, subs, closed, mu, done, bgDone, panicked, allocated,
                 ncloses, callVars, batchVars, subVars, resumeVars, dispVars>>

Disconnect == DisconnectWithin(MaxReconn)

\* The redial succeeds: Reconnected is put on the state stream.
Reconnect ==
  /\ Running /\ conn = "disconnected"
  /\ conn' = "connected"
  /\ nreconn' = nreconn + 1
  /\ stateEvt' = stateEvt + 1
  /\ UNCHANGED <<wireVars, counter, subs, closed, mu, done, bgDone, panicked, allocated,
                 ncloses, callVars, batchVars, subVars, kapc, mpc, rpc, dispVars>>

\* ------------------------------------------------ transport-state monitor
\* case s := <-client.transport.state with s == Reconnected:
\* count := len(client.subs) under the mutex; go resumeSubscriptions() when
\* count > 0.  The goroutines started are interchangeable: the next one
\* takes the lowest unused index.
MonitorState ==
  /\ Running /\ Free /\ mpc = "run" /\ stateEvt > 0
  /\ stateEvt' = stateEvt - 1
  /\ IF Cardinality(DOMAIN subs) > 0
       THEN \E r \in Resumers :
              /\ rpc[r] = "none"
              /\ \A q \in Resumers : q < r => rpc[q] # "none"
              /\ rpc' = [rpc EXCEPT ![r] = "lock"]
       ELSE UNCHANGED rpc
  /\ UNCHANGED <<wireVars, coreVars, ncloses, callVars, batchVars, subVars,
                 kapc, mpc, nreconn, dispVars>>

\* case <-client.bgProcessing.Done(): return.
MonitorExit ==
  /\ Running /\ mpc = "run" /\ bgDone
  /\ mpc' = "exited"
  /\ UNCHANGED <<wireVars, coreVars, ncloses, callVars, batchVars, subVars,
                 kapc, stateEvt, rpc, nreconn, dispVars>>

\* ------------------------------------------- Client.resumeSubscriptions
\* c.Lock(); defer c.Unlock(); the resume context is made; the 2 s ticker
\* starts.  The mutex stays held until the function returns.
ResumeLock(r) ==
  /\ Running /\ Free /\ rpc[r] = "lock"
  /\ mu' = "resume"
  /\ rpc' = [rpc EXCEPT ![r] = "wait"]
  /\ UNCHANGED <<wireVars, counter, subs, closed, conn, done, bgDone, panicked, allocated,
                 ncloses, callVars, batchVars, subVars,
                 kapc, stateEvt, mpc, nreconn, dispVars>>

\* case <-rt.C: c.ServerVersion() is called; its c.req() must Lock() the
\* mutex this goroutine holds.
ResumeTick(r) ==
  /\ Running /\ rpc[r] = "wait"
  /\ rpc' = [rpc EXCEPT ![r] = "probe"]
  /\ UNCHANGED <<wireVars, coreVars, ncloses, callVars, batchVars, subVars,
                 kapc, stateEvt, mpc, nreconn, dispVars>>

\* case <-c.bgProcessing.Done(): return (the deferred Unlock runs).
ResumeBgDone(r) ==
  /\ Running /\ rpc[r] = "wait" /\ bgDone
  /\ mu' = "free"
  /\ rpc' = [rpc EXCEPT ![r] = "done"]
  /\ UNCHANGED <<wireVars, counter, subs, closed, conn, done, bgDone, panicked, allocated,
                 ncloses, callVars, batchVars, subVars,
                 kapc, stateEvt, mpc, nreconn, dispVars>>

\* ------------------------------------------------- frames put on the wire
\* c.req(name, params...): one more request is built, while fewer than n
\* are waiting to be sent.
WireReqUpTo(n) ==
  /\ Len(wreqs) < n
  /\ \E id \in 0..(MaxId - 1), name \in MethodNames, ps \in ParamLists :
       /\ Req(id)
       /\ wreqs' = Append(wreqs, Request(id, name, ps))
  /\ out' = NoFrame
  /\ UNCHANGED <<kaIds, dlog, ret, subs, closed, mu, conn, done, bgDone, panicked, ncloses,
                 callVars, batchVars, subVars, resumeVars, dispVars>>

\* The requests of one batch are built.
WireReq == WireReqUpTo(MaxBatch)

\* syncRequest(req) encodes the request and hands the frame to the
\* transport; nothing is sent when encode fails.
WireSyncRequest ==
  /\ Running /\ Len(wreqs) = 1
  /\ out' = IF Marshalable(wreqs[1])
              THEN [op |-> "syncRequest", reqs |-> wreqs,
                    bytes |-> SyncRequestFrame(wreqs[1])]
              ELSE [op |-> "error", reqs |-> wreqs, bytes |-> <<>>]
  /\ wreqs' = <<>>
  /\ UNCHANGED <<kaIds, dlog, ret, coreVars, ncloses, callVars, batchVars, subVars, resumeVars, dispVars>>

\* syncBatchRequest(reqs) encodes the batch and hands the frame to the
\* transport; nothing is sent when encodeBatch fails.
WireSyncBatchRequest ==
  /\ Running /\ Len(wreqs) >= 1
  /\ out' = IF \A i \in 1..Len(wreqs) : Marshalable(wreqs[i])
              THEN [op |-> "syncBatchRequest", reqs |-> wreqs,
                    bytes |-> SyncBatchFrame(wreqs)]
              ELSE [op |-> "error", reqs |-> wreqs, bytes |-> <<>>]
  /\ wreqs' = <<>>
  /\ UNCHANGED <<kaIds, dlog, ret, coreVars, ncloses, callVars, batchVars, subVars, resumeVars, dispVars>>

\* startSubscription and the keep-alive tick send req.encode() as it is
\* (client.go:388-393, client.go:171-173).
WireSendEncoded ==
  /\ Running /\ Len(wreqs) = 1
  /\ out' = IF Marshalable(wreqs[1])
              THEN [op |-> "encode", reqs |-> wreqs, bytes |-> Encode(wreqs[1])]
              ELSE [op |-> "error", reqs |-> wreqs, bytes |-> <<>>]
  /\ wreqs' = <<>>
  /\ UNCHANGED <<kaIds, dlog, ret, coreVars, ncloses, callVars, batchVars, subVars, resumeVars, dispVars>>

NextWire == WireReq \/ WireSyncRequest \/ WireSyncBatchRequest \/ WireSendEncoded

\* The frames syncRequest, syncBatchRequest, startSubscription and
\* keep-alive hand to the transport, for requests built by req().
SpecWire == Init /\ [][NextWire]_vars

\* The frames of the operations that send one request: each request is
\* built by req() and sent before the next is built.
NextWireOne == WireReqUpTo(1) \/ WireSyncRequest \/ WireSendEncoded

SpecWireOne == Init /\ [][NextWireOne]_vars

\* ---------------------------------------- caller-facing operations run
\* One operation is run on what its syncRequest call returned.
Ran(op, sr, rv) ==
  /\ Running
  /\ ret' = [op |-> op, sr |-> sr, rv |-> rv]
  /\ UNCHANGED <<wreqs, out, kaIds, dlog, coreVars, ncloses, callVars, batchVars, subVars,
                 resumeVars, dispVars>>

RunServerPing ==
  \E protocol \in Protocols, sr \in SyncReturns :
    /\ (protocol \in {Protocol10, Protocol11} => sr = [res |-> NilCallResp, err |-> NilErr])
    /\ Ran("ServerPing " \o protocol, sr, ServerPing(protocol, sr))

RunServerBanner == \E sr \in SyncReturns : Ran("ServerBanner", sr, ServerBanner(sr))

RunGetTransaction == \E sr \in SyncReturns : Ran("GetTransaction", sr, GetTransaction(sr))

RunBroadcastTransaction ==
  \E sr \in SyncReturns : Ran("BroadcastTransaction", sr, BroadcastTransaction(sr))

RunScriptHashBalance ==
  \E h \in ScriptHashes, sr \in SyncReturns :
    Ran("ScriptHashBalance", sr, ScriptHashBalance(h, sr))

\* ------------------------------------ syncBatchRequest as its caller sees it
\* A response as the batch loop receives it: its ID and its error object.
BatchResp(id, e) == [ID |-> id, Error |-> e]
NilBatchResp == [ID |-> -1, Error |-> NoRpcError]

\* The IDs batchReq gives the n requests of a batch when the counter is at k.
BatchIds(k, n) == [i \in 1..n |-> k + i - 1]

\* What the loop may receive before respCount == len(reqs): n responses,
\* each for an ID of the batch.
Arrivals(ids) ==
  [1..Len(ids) -> {BatchResp(ids[i], e) : i \in 1..Len(ids), e \in RpcErrors}]

RECURSIVE Collect(_, _, _, _)
\* for resp := range res { responses[reqMap[resp.ID]] = resp; respCount++ }
\* (client.go:472-485).
Collect(responses, ids, arrivals, count) ==
  IF count = Len(arrivals) THEN responses
  ELSE Collect(Place(responses, ids, arrivals[count + 1], count), ids, arrivals, count + 1)

\* A batch that fails as a whole when one of its responses carries an error.
BatchErrOfResponses(responses) ==
  IF \E i \in 1..Len(responses) : ~responses[i].Error.isNil
    THEN ErrorsNew("batch element failed")
    ELSE NilErr

\* return responses, nil (client.go:487).
BatchErr(responses) == NilErr

\* syncBatchRequest (client.go:443-488) for requests with the IDs ids:
\* encodeBatch or sendMessage may fail; otherwise the loop collects the
\* arrivals.  With no request at all the loop never ends.
SyncBatchRequest(ids, encodeFails, sendFails, arrivals) ==
  IF encodeFails THEN [responses |-> <<>>, err |-> ErrorsNew("json: unsupported type"), blocks |-> FALSE]
  ELSE IF sendFails THEN [responses |-> <<>>, err |-> ErrorsNew("write: broken pipe"), blocks |-> FALSE]
  ELSE IF Len(ids) = 0 THEN [responses |-> <<>>, err |-> NilErr, blocks |-> TRUE]
  ELSE LET responses == Collect([i \in 1..Len(ids) |-> NilBatchResp], ids, arrivals, 0) IN
       [responses |-> responses, err |-> BatchErr(responses), blocks |-> FALSE]

RunSyncBatchRequest ==
  /\ ret = NoReturn
  /\ \E n \in 0..MaxBatch, encodeFails \in BOOLEAN, sendFails \in BOOLEAN :
      \E k \in 0..(MaxId - n) :
        \E arrivals \in Arrivals(BatchIds(k, n)) :
          /\ (encodeFails => n > 0)
          /\ Ran("syncBatchRequest",
                 [ids |-> BatchIds(k, n), encodeFails |-> encodeFails,
                  sendFails |-> sendFails, arrivals |-> arrivals],
                 SyncBatchRequest(BatchIds(k, n), encodeFails, sendFails, arrivals))

\* ------------------------------------------------------------- EnrichVin
DefaultBatchSize == 80

\* The transaction the server holds under hash h: two outputs, told apart by
\* their transaction and their position.
VerboseTx(h) == [TxID |-> h, Vout |-> <<[N |-> 0, of |-> h], [N |-> 1, of |-> h]>>]

\* Lists of n vins: input k (from 0) spends output k % 2 of a transaction
\* chosen by the list's stride, so that hashes repeat within and across
\* batches.
Vins(n, stride) ==
  [k \in 1..n |-> [TxID |-> ((k - 1) * stride) % (MaxHash + 1), Vout |-> (k - 1) % 2]]

\* The zero value of VinWithPrevout.
NilVinWithPrevout == [Vin |-> "nil", Prevout |-> "nil"]

\* GetVerboseTransactionBatch: one batch request for the hashes; the
\* transactions come back in the order of the hashes, or the call returns an
\* error.
GetVerboseTransactionBatch(hashes, fails) ==
  IF fails THEN [txs |-> <<>>, err |-> ErrorsNew("lookup")]
  ELSE [txs |-> [j \in 1..Len(hashes) |-> VerboseTx(hashes[j])], err |-> NilErr]

\* A loop that issues the empty batch too.
EmptyBatchNever(batchHashes) == FALSE

\* if len(batchHashes) == 0 { break }
EmptyBatch(batchHashes) == Len(batchHashes) = 0

\* Iteration i of EnrichVin's loop and those after it; batches lists the
\* calls of GetVerboseTransactionBatch made so far, failAt is the call that
\* returns an error (0 for none).
RECURSIVE EnrichLoop(_, _, _, _, _)
EnrichLoop(vins, i, vinWithPrevouts, batches, failAt) ==
  LET n == Len(vins)
      start == i * DefaultBatchSize
      end == IF start + DefaultBatchSize > n THEN n ELSE start + DefaultBatchSize
      batchHashes == [j \in 1..(end - start) |-> vins[start + j].TxID]
      done_ == [result |-> vinWithPrevouts, err |-> NilErr, batches |-> batches]
  IN IF i > n \div DefaultBatchSize \/ EmptyBatch(batchHashes) THEN done_
     ELSE LET r == GetVerboseTransactionBatch(batchHashes, failAt = Len(batches) + 1)
              issued == Append(batches, [start |-> start, hashes |-> batchHashes])
          IN IF r.err # NilErr
               THEN [result |-> <<>>, err |-> r.err, batches |-> issued]
               ELSE EnrichLoop(vins, i + 1,
                      [k \in 1..n |->
                         IF k - 1 \in start..(start + Len(r.txs) - 1)
                           THEN [Vin |-> vins[k],
                                 Prevout |-> r.txs[k - start].Vout[vins[k].Vout + 1]]
                           ELSE vinWithPrevouts[k]],
                      issued, failAt)

EnrichVin(vins, failAt) ==
  EnrichLoop(vins, 0, [k \in 1..Len(vins) |-> NilVinWithPrevout], <<>>, failAt)

RunEnrichVin ==
  /\ ret = NoReturn
  /\ \E n \in 0..MaxVins, stride \in 0..MaxHash, failAt \in 0..3 :
       Ran("EnrichVin", [vins |-> Vins(n, stride), failAt |-> failAt],
           EnrichVin(Vins(n, stride), failAt))

\* EnrichVin, run once, on lists of up to MaxVins vins.
SpecEnrich == Init /\ [][RunEnrichVin]_vars

\* ------------------------------------------------- handleResponse, as a function
\* Who may own the slot of an ID: a call, the batch, a subscription to block
\* headers or a subscription to an address.
Owners == {"c1", "c2", "b1", "s1", "s2"}

\* The slot its owner registers under id: a call and a batch register
\* &subscription{messages: res}, with no method; the slots of one batch
\* share the batch's channel.
OwnerSlot(o, id, first) ==
  CASE o \in Callers -> Slot(CallChan(o, id), "")
    [] o \in Batchers -> Slot(BatchChan(o, first), "")
    [] o = "s1" -> Slot(SubChan(o), HeadersMethod)
    [] OTHER -> Slot(SubChan(o), AddressMethod)

\* The maps subs can be: every owner but the batch holds at most one slot.
OwnerMaps ==
  UNION {{K \in [D -> Owners] :
            \A i, j \in D : (K[i] = K[j] /\ i # j) => K[i] \in Batchers} :
         D \in SUBSET (0..(MaxId - 1))}

SubsOf(K) ==
  LET batch == {i \in DOMAIN K : K[i] \in Batchers}
      first == IF batch = {} THEN -1 ELSE CHOOSE i \in batch : \A j \in batch : i <= j
  IN [id \in DOMAIN K |-> OwnerSlot(K[id], id, first)]

\* handleResponse (client.go:289-310): the channels the decoded object is
\* sent to.
HandleResponse(S, w) ==
  LET resp == Decode(w)
  IN IF resp.Method # ""
       THEN {S[id].messages : id \in Matching(S, resp)}
       ELSE LookupSlot(S, resp)

RunHandleResponse ==
  /\ ret = NoReturn
  /\ \E K \in OwnerMaps, w \in WireResps :
       Ran("handleResponse", [subs |-> SubsOf(K), w |-> w], HandleResponse(SubsOf(K), w))

\* handleResponse, run once, on every map and every inbound object.
SpecRoute == Init /\ [][RunHandleResponse]_vars

\* syncBatchRequest, run once, on every run of its receive loop.
SpecBatchOps == Init /\ [][RunSyncBatchRequest]_vars

NextOps ==
  \/ RunServerPing \/ RunServerBanner \/ RunGetTransaction
  \/ RunBroadcastTransaction \/ RunScriptHashBalance

\* The caller-facing operations, on every return of syncRequest.
SpecOps == Init /\ [][NextOps]_vars

\* handleResponse and the close loop of handleMessages.
NextRouting ==
  \/ DispRouteById \/ DispRouteNotify \/ DispSendPanic
  \/ DispDone \/ DispCloseNext \/ DispCloseExit

NextDispatcher == DispRecvFrame \/ NextRouting

\* The steps of the callers P of syncRequest.
NextCallsOf(P) ==
  \/ \E p \in P : CallReq(p)
  \/ \E p \in P : CallRegister(p)
  \/ \E p \in P : CallEncodeFail(p)
  \/ \E p \in P : CallSendFail(p)
  \/ \E p \in P : CallSendOk(p)
  \/ \E p \in P : CallRecv(p)
  \/ \E p \in P : CallRecvClosed(p)
  \/ \E p \in P : CallUnreg(p)

NextBatch ==
  \/ \E b \in Batchers : BatchStart(b)
  \/ \E b \in Batchers : BatchReq(b)
  \/ \E b \in Batchers : BatchRegister(b)
  \/ \E b \in Batchers : BatchEncodeFail(b)
  \/ \E b \in Batchers : BatchSendFail(b)
  \/ \E b \in Batchers : BatchSendOk(b)
  \/ \E b \in Batchers : BatchRecv(b)
  \/ \E b \in Batchers : BatchStore(b)
  \/ \E b \in Batchers : BatchReturn(b)

\* The steps of the subscriptions S, their handler loops and their users.
NextSubsOf(S) ==
  \/ \E s \in S : SubReq(s)
  \/ \E s \in S : SubRegister(s)
  \/ \E s \in S : SubSendOk(s)
  \/ \E s \in S : SubSendFail(s)
  \/ \E s \in S : SubUnreg(s)
  \/ \E s \in S : HandlerRecv(s)
  \/ \E s \in S : HandlerClosed(s)
  \/ \E s \in S : HandlerEmit(s)
  \/ HandlerEmitPanic

\* The users of the subscriptions S cancel their contexts.
NextCtxOf(S) ==
  \/ \E s \in S : CtxCancel(s)
  \/ \E s \in S : HandlerCtx(s)
  \/ \E s \in S : UserLeave(s)

NextKeepAlive == KeepAliveTick \/ KeepAliveExit

\* The transport drops and re-establishes the connection; the monitor
\* reacts to Reconnected by starting the resume task.
NextReconnect ==
  \/ Disconnect \/ Reconnect
  \/ MonitorState \/ MonitorExit
  \/ \E r \in Resumers : ResumeLock(r)
  \/ \E r \in Resumers : ResumeTick(r)
  \/ \E r \in Resumers : ResumeBgDone(r)

\* Concurrent calls, the dispatcher, reconnection and Close.
NextCalls == NextCallsOf(Callers) \/ NextDispatcher \/ NextReconnect \/ Close

SpecCalls == Init /\ [][NextCalls]_vars

\* A batch, the dispatcher, reconnection and Close.
NextBatches == NextBatch \/ NextDispatcher \/ NextReconnect \/ FirstClose

SpecBatch == Init /\ [][NextBatches]_vars


\* Every caller of req(): a call, a batch, a subscription and keep-alive,
\* with the dispatcher and Close.
NextAlloc ==
  \/ NextCallsOf({"c1"}) \/ NextBatch \/ NextSubsOf({"s1"}) \/ NextKeepAlive
  \/ NextDispatcher \/ FirstClose

SpecAlloc == Init /\ [][NextAlloc]_vars

\* Two subscriptions with their handler loops and users, a call, the
\* dispatcher and Close.
NextSubs ==
  \/ NextSubsOf(Subscribers) \/ NextCallsOf({"c1"})
  \/ NextDispatcher \/ FirstClose

SpecSubs == Init /\ [][NextSubs]_vars

\* The keep-alive goroutine next to a call and a subscription, with the
\* dispatcher and Close.
NextPing ==
  \/ NextKeepAlive \/ NextCallsOf({"c1"}) \/ NextSubsOf({"s1"})
  \/ NextDispatcher \/ FirstClose

SpecPing == Init /\ [][NextPing]_vars

\* The monitor and the resume tasks, with up to MaxResumes reconnections.
NextResumeTasks ==
  \/ MonitorState \/ MonitorExit
  \/ \E r \in Resumers : ResumeLock(r)
  \/ \E r \in Resumers : ResumeTick(r)
  \/ \E r \in Resumers : ResumeBgDone(r)

\* A subscription, the dispatcher, a transport that drops and re-establishes
\* the connection, the monitor, the resume tasks and Close.
NextResume ==
  \/ NextSubsOf({"s1"}) \/ NextDispatcher
  \/ DisconnectWithin(MaxResumes) \/ Reconnect
  \/ NextResumeTasks \/ FirstClose

SpecResume == Init /\ [][NextResume]_vars

\* Every goroutine of the client that can take a step eventually takes one;
\* the transport's connectivity, the user's calls and Close are under no
\* such obligation.
FairResume ==
  /\ WF_vars(NextDispatcher)
  /\ WF_vars(NextSubsOf({"s1"}))
  /\ WF_vars(MonitorState) /\ WF_vars(MonitorExit)
  /\ \A r \in Resumers :
       WF_vars(ResumeLock(r)) /\ WF_vars(ResumeTick(r)) /\ WF_vars(ResumeBgDone(r))

SpecResumeFair == Init /\ [][NextResume]_vars /\ FairResume

\* A subscription whose user may cancel its context, the keep-alive
\* goroutine, the monitor, the dispatcher and Close.
NextShutdown ==
  \/ NextSubsOf({"s1"}) \/ NextCtxOf({"s1"})
  \/ NextKeepAlive \/ MonitorExit
  \/ NextDispatcher \/ FirstClose

SpecShutdown == Init /\ [][NextShutdown]_vars

\* Every goroutine of the client that can take a step eventually takes one,
\* and a handler loop whose context is cancelled eventually sees it; the
\* user (cancelling, leaving the stream, calling Close) and the ticker are
\* under no such obligation.
FairShutdown ==
  /\ WF_vars(NextDispatcher)
  /\ WF_vars(NextSubsOf({"s1"}))
  /\ WF_vars(HandlerCtx("s1"))
  /\ WF_vars(KeepAliveExit) /\ WF_vars(MonitorExit)

SpecShutdownFair == Init /\ [][NextShutdown]_vars /\ FairShutdown

\* A call and a batch whose replies arrive as single objects and as arrays,
\* the dispatcher and Close.
NextFrames ==
  \/ (\E f \in ReplyFrames : DispRecvShaped(f)) \/ NextRouting
  \/ NextCallsOf({"c1"}) \/ NextBatch \/ FirstClose

SpecFrames == Init /\ [][NextFrames]_vars

\* A call, with inbound frames of every shape, the dispatcher and Close.
NextInbound ==
  \/ (\E f \in InFrames : DispRecvShaped(f)) \/ NextRouting
  \/ NextCallsOf({"c1"}) \/ FirstClose

SpecInbound == Init /\ [][NextInbound]_vars

\* A batch, the dispatcher and Close.
NextBatchWait == NextBatch \/ NextDispatcher \/ FirstClose

\* The batch caller and the dispatcher take the steps they can take; the
\* peer is under no obligation to send a frame, nor the user to call Close.
FairBatchWait ==
  /\ WF_vars(NextRouting)
  /\ \A b \in Batchers :
       /\ WF_vars(BatchReq(b)) /\ WF_vars(BatchRegister(b)) /\ WF_vars(BatchSendOk(b))
       /\ WF_vars(BatchRecv(b)) /\ WF_vars(BatchStore(b)) /\ WF_vars(BatchReturn(b))

SpecBatchWait == Init /\ [][NextBatchWait]_vars /\ FairBatchWait

\* A subscription whose user may cancel its context, next to a call, with
\* the dispatcher and Close.
NextCancel ==
  \/ NextSubsOf({"s1"}) \/ NextCtxOf({"s1"}) \/ NextCallsOf({"c1"})
  \/ NextDispatcher \/ FirstClose

SpecCancel == Init /\ [][NextCancel]_vars

\* =================================================================== claims
Returned(p) == cpc[p] \in {"unreg", "ret"}
SeqToSet(q) == {q[i] : i \in 1..Len(q)}

\* C1: the request IDs req() hands out are 0, 1, 2, ... in allocation
\* order, whoever asks (call, batch element, subscription, keep-alive): the
\* k-th ID handed out is k-1, so the first is 0, each is greater than all
\* before it and none is handed out twice; the IDs the operations hold are
\* pairwise distinct.
C1_IdsSequential ==
  /\ \A i \in 1..Len(allocated) : allocated[i] = i - 1
  /\ counter = Len(allocated)
  /\ \A b \in Batchers : \A i, j \in 1..Len(bids[b]) : i < j => bids[b][i] < bids[b][j]
  /\ \A b \in Batchers : cid["c1"] \notin SeqToSet(bids[b]) /\ sid["s1"] \notin SeqToSet(bids[b])
  /\ cid["c1"] >= 0 => cid["c1"] # sid["s1"]

\* A call, a subscription and a batch element each hold an ID, and the call
\* got its ID after the other two.
C1_Witness ==
  /\ Len(allocated) = 3
  /\ cid["c1"] = 2 /\ sid["s1"] = 1 /\ bids["b1"] = <<0>>

\* C2: a call that returns a response returns the id-routed response that
\* carries its own request ID, never one that carries the ID of another
\* request in flight.
C2_OwnResponse ==
  \A p \in Callers :
    (Returned(p) /\ cres[p].resp # NilResp)
      => (cres[p].resp.ID = cid[p] /\ cres[p].resp.Method = "")

\* Two calls were in flight and the later one (ID 1) was answered first:
\* c2 has its response while c1 (ID 0) still waits.
C2_Witness ==
  /\ cpc["c1"] = "wait" /\ cid["c1"] = 0
  /\ Returned("c2") /\ cid["c2"] = 1 /\ cres["c2"].resp.ID = 1

\* C3: when a batch has returned after each of its n IDs was answered once,
\* in whatever order, the vector has length n and element i is the response
\* carrying the ID of the i-th request sent.
C3_BatchOrder ==
  \A b \in Batchers :
    (/\ bpc[b] = "ret" /\ berr[b] = ""
     /\ Len(brecv[b]) = bn[b]
     /\ SeqToSet(brecv[b]) = SeqToSet(bids[b]))
      => /\ Len(bresp[b]) = bn[b]
         /\ \A i \in 1..bn[b] : bresp[b][i].ID = bids[b][i]

\* A batch of two has returned whose second request was answered first.
C3_Witness ==
  /\ bpc["b1"] = "ret" /\ berr["b1"] = "" /\ bn["b1"] = 2
  /\ brecv["b1"] = <<bids["b1"][2], bids["b1"][1]>>
  /\ bresp["b1"][1].ID = bids["b1"][1]

\* C4: a call that has returned (in particular one released by Close while
\* it waited) has a response or a non-nil error, never a nil response with a
\* nil error.
C4_ReleasedWithError ==
  \A p \in Callers :
    Returned(p) => (cres[p].resp # NilResp \/ cres[p].err # "")

\* C5: no slot's channel is closed twice, neither by the loop over subs that
\* Close triggers nor by the batch whose IDs share one channel.
C5_ClosedOnce ==
  panicked \notin {"removeSubscription: close of closed channel",
                   "syncBatchRequest: close of closed channel"}

\* C6: a second call of Close raises no failure.
C6_SecondCloseSafe ==
  ncloses >= 2 => panicked # "Close: close of closed channel"

\* C7: once a call has taken its response and unregistered its slot, the
\* dispatcher is never left sending another response with the same ID on
\* that slot's channel, now closed: a late or duplicate response is dropped.
C7_LateResponseDropped ==
  \A p \in Callers :
    (Returned(p) /\ cres[p].resp # NilResp)
      => ~(dpc = "send" /\ dch = CallChan(p, cid[p]) /\ dch \in closed)

\* C8: whenever a call has returned its ID is no key of subs, and the
\* deferred removeSubscription by which it returns removes that key and
\* leaves every other slot as it was; a call whose send or encoding failed
\* goes there with a non-nil error, without waiting.
C8_Unregistered ==
  \A p \in Callers : cpc[p] = "ret" => cid[p] \notin DOMAIN subs

C8_ReturnStep ==
  \A p \in Callers :
    /\ (cpc[p] = "unreg" /\ cpc'[p] = "ret") => subs' = Without(subs, cid[p])
    /\ (cpc[p] = "send" /\ cpc'[p] = "unreg")
         => (cres'[p].err # "" /\ cres'[p].resp = NilResp /\ subs' = subs)

C8_UnregisteredOnReturn == []C8_Unregistered /\ [][C8_ReturnStep]_vars

\* c1's call failed on send and has returned unregistered, while c2's slot
\* is still registered and c2 waits for its response on a live connection.
C8_Witness ==
  /\ cpc["c1"] = "ret" /\ cres["c1"].err = "transport"
  /\ cid["c1"] \notin DOMAIN subs
  /\ cpc["c2"] = "wait" /\ cid["c2"] \in DOMAIN subs /\ cid["c2"] > cid["c1"]
  /\ conn = "connected"

\* C9: a frame syncRequest hands to the transport is the JSON encoding of
\* its request followed by exactly one 0x0A, and holds no other 0x0A.
C9_OneDelimiter ==
  out.op = "syncRequest" =>
    /\ out.bytes = Append(Marshal(out.reqs[1]), delimiter)
    /\ \A i \in 1..(Len(out.bytes) - 1) : out.bytes[i] # delimiter

\* C10: a frame syncBatchRequest hands to the transport is one JSON array
\* of the n request objects followed by exactly one 0x0A, with no 0x0A
\* inside the array.
C10_BatchOneFrame ==
  out.op = "syncBatchRequest" =>
    /\ out.bytes =
         Append(arrayStart
                  \o Join([i \in 1..Len(out.reqs) |-> Marshal(out.reqs[i])], comma)
                  \o arrayEnd, delimiter)
    /\ \A i \in 1..(Len(out.bytes) - 1) : out.bytes[i] # delimiter

\* b holds sub as a contiguous run of bytes.
HasSub(b, sub) ==
  \E i \in 0..(Len(b) - Len(sub)) : SubSeq(b, i + 1, i + Len(sub)) = sub

\* "params": as bytes, and the texts that may follow it.
ParamsKey == <<34, 112, 97, 114, 97, 109, 115, 34, 58>>
EmptyArrayEnd == <<91, 93, 125>>
NullText == <<110, 117, 108, 108>>

\* C11: the params of every request req() builds is a sequence, never nil:
\* a frame sent for a request built without parameters (none given, or the
\* nil params of a subscription) holds "params":[] and no frame holds
\* "params":null.
C11_ParamsAlwaysSequence ==
  /\ \A i \in 1..Len(wreqs) : ~wreqs[i].Params.isNil
  /\ \A i \in 1..Len(out.reqs) : ~out.reqs[i].Params.isNil
  /\ out.op \in {"encode", "syncRequest", "syncBatchRequest"} =>
       /\ ~HasSub(out.bytes, ParamsKey \o NullText)
       /\ (\E i \in 1..Len(out.reqs) : out.reqs[i].Params.elems = <<>>)
            => HasSub(out.bytes, ParamsKey \o EmptyArrayEnd)

\* The frame of a subscription or keep-alive request built without
\* parameters has been handed to the transport.
C11_Witness ==
  /\ out.op = "encode" /\ Len(out.reqs) = 1
  /\ out.reqs[1].Params.elems = <<>>
  /\ HasSub(out.bytes, ParamsKey \o EmptyArrayEnd)

\* C18: when the response a call gets carries an error object, the operation
\* returns a non-nil error whose message is the error object's message, and
\* no result.
C18_ServerErrorPropagated ==
  (ret.op # "none" /\ ret.sr.err.isNil /\ ~ret.sr.res.isNil /\ ~ret.sr.res.Error.isNil)
    => /\ ret.rv.panic = ""
       /\ ~ret.rv.err.isNil
       /\ ret.rv.err.msg = ret.sr.res.Error.Message
       /\ ret.rv.result = NoResult

\* The channels of the registered slots whose method is m.
MethodChans(m) == {subs[id].messages : id \in {k \in DOMAIN subs : subs[k].method = m}}
ChansOf(ids) == {subs[id].messages : id \in ids}
HandlerInvoked(s) == hpc[s] = "select" /\ hpc'[s] = "handling"

\* C12: a notification with method m is sent to the registered slots whose
\* method is m, one after the other and each once, and is received by the
\* handler loop of each; no call receives it and subs does not change while
\* it is delivered; a response that matches no slot is dropped and leaves
\* subs as it was.
C12_Step ==
  /\ (dpc = "route" /\ dpc' = "nsend") =>
       /\ dresp'.Method # ""
       /\ dch' \in MethodChans(dresp'.Method)
       /\ ChansOf(dtodo') = MethodChans(dresp'.Method) \ {dch'}
       /\ Cardinality(dtodo') = Cardinality(MethodChans(dresp'.Method)) - 1
  /\ (dpc = "nsend" /\ (dpc' # "nsend" \/ dch' # dch) /\ panicked' = "") =>
       /\ \E s \in Subscribers : dch = SubChan(s) /\ HandlerInvoked(s)
       /\ IF dtodo = {}
            THEN dpc' \in {"select", "route"} /\ mu' = "free"
            ELSE dpc' = "nsend" /\ dch' \in ChansOf(dtodo) /\ ChansOf(dtodo') = ChansOf(dtodo) \ {dch'}
  /\ dpc = "nsend" =>
       /\ subs' = subs
       /\ \A p \in Callers : cres'[p].resp = cres[p].resp
  /\ (dpc = "route" /\ dpc' \in {"select", "route"} /\ dleft' = dleft - 1) =>
       /\ subs' = subs /\ hpc' = hpc /\ cpc' = cpc

C12_NotifyMatching == [][C12_Step]_vars

\* A notification has been received by the handler of s1 and is being sent
\* to s2, the last matching slot, while a call is registered as well.
C12_Witness ==
  /\ dpc = "nsend" /\ dch = SubChan("s2") /\ dtodo = {}
  /\ hpc["s1"] = "handling"
  /\ sid["s1"] \in DOMAIN subs /\ sid["s2"] \in DOMAIN subs
  /\ cpc["c1"] = "wait" /\ cid["c1"] \in DOMAIN subs

\* C13: the handler of a subscription is invoked once for every response
\* the dispatcher sends to that subscription (its id-matched response, or a
\* notification with its method) and for nothing else, and the dispatcher
\* takes the next response of the wire only when the handler loop has taken
\* the current one: the invocations are in the order of arrival.
C13_Step ==
  \A s \in Subscribers :
    /\ HandlerInvoked(s) =>
         /\ dpc \in {"send", "nsend"} /\ dch = SubChan(s)
         /\ \/ dpc = "send" /\ dresp.Method = "" /\ dresp.ID = sid[s]
            \/ dpc = "nsend" /\ dresp.Method = HeadersMethod
         /\ <<dpc, dch, dleft, dtodo>>' # <<dpc, dch, dleft, dtodo>>
         /\ \A t \in Subscribers \ {s} : hpc'[t] = hpc[t]
    /\ (dpc \in {"send", "nsend"} /\ dch = SubChan(s) /\ panicked' = "") =>
         \/ HandlerInvoked(s)
         \/ <<dpc, dch, dleft, dtodo, dresp>>' = <<dpc, dch, dleft, dtodo, dresp>>

C13_HandlerInOrder == [][C13_Step]_vars

\* The handler of s1 has been invoked with the first response of a frame
\* of two and the dispatcher turns to the second.
C13_Witness ==
  /\ spc["s1"] = "ok" /\ hpc["s1"] = "handling"
  /\ dpc = "route" /\ dleft = 1

\* C14: from the moment startSubscription has succeeded until the close
\* loop of the dispatcher starts, the subscription's ID is a key of subs
\* with the subscription's channel and method, and an invocation of a
\* handler leaves subs as it was.
C14_Registered ==
  \A s \in Subscribers :
    (spc[s] = "ok" /\ dpc \notin {"closing", "exited"}) =>
      (sid[s] \in DOMAIN subs /\ subs[sid[s]] = Slot(SubChan(s), HeadersMethod))

C14_DeliveryStep == \A s \in Subscribers : HandlerInvoked(s) => subs' = subs

C14_StaysRegistered == []C14_Registered /\ [][C14_DeliveryStep]_vars

\* The handler of s1 has been invoked and the dispatcher sends s1 one more
\* message; s1 is registered.
C14_Witness ==
  /\ spc["s1"] = "ok" /\ hpc["s1"] = "handling"
  /\ dpc \in {"send", "nsend"} /\ dch = SubChan("s1")
  /\ sid["s1"] \in DOMAIN subs

\* C19: when the registration request of a subscription could not be sent
\* and the operation has returned, the subscription's ID is no key of subs,
\* its messages channel is closed, and its handler loop has ended or ends
\* at its next step; the handler does not panic.
C19_FailedSubscribeCleansUp ==
  \A s \in Subscribers :
    spc[s] = "failed" =>
      /\ sid[s] \notin DOMAIN subs
      /\ SubChan(s) \in closed
      /\ hpc[s] \in {"select", "exited"}
      /\ panicked # "handler: send on closed channel"

\* A subscription whose startSubscription has succeeded and which is
\* registered under its ID.
Active(s) == spc[s] = "ok" /\ sid[s] \in DOMAIN subs

\* C15: a resume task started after a Reconnected event while a subscription
\* is active (it holds the mutex and waits for its ticker) eventually
\* terminates, unless the session is closed.
C15_ResumeTerminates ==
  \A r \in Resumers :
    (rpc[r] = "wait" /\ \E s \in Subscribers : Active(s))
      ~> (done \/ rpc[r] = "done")

\* C16: every subscription registered when a resume starts is eventually
\* unregistered from the ID it had then, unless the session is closed.
C16_OldIdUnregistered ==
  \A r \in Resumers : \A k \in 0..(MaxId - 1) :
    (rpc[r] = "wait" /\ \E s \in Subscribers : Active(s) /\ sid[s] = k)
      ~> (done \/ k \notin DOMAIN subs)

\* C17: when a Reconnected event is pending while an earlier resume task is
\* waiting or probing, the earlier task eventually terminates and the event
\* is taken up, unless the session is closed.
C17_EarlierResumeCancelled ==
  \A r \in Resumers :
    (rpc[r] \in {"wait", "probe"} /\ stateEvt > 0 /\ \E s \in Subscribers : Active(s))
      ~> (done \/ (rpc[r] = "done" /\ stateEvt = 0))

\* C20: no ID of a keep-alive request is ever a key of subs, and no
\* id-routed response carrying such an ID is sent to a slot; a keep-alive
\* tick takes exactly one ID, the next of the counter, and changes nothing
\* else of the session, whether the transport is connected or not.
C20_NoWaiter ==
  /\ kaIds \cap DOMAIN subs = {}
  /\ dpc = "send" => dresp.ID \notin kaIds

C20_TickStep ==
  kaIds' # kaIds =>
    /\ kaIds' = kaIds \cup {counter} /\ counter \notin kaIds
    /\ counter' = counter + 1
    /\ allocated' = Append(allocated, counter)
    /\ UNCHANGED <<subs, closed, mu, conn, done, bgDone, panicked, ncloses,
                   callVars, batchVars, subVars, resumeVars, dispVars>>

C20_KeepAliveFireAndForget == []C20_NoWaiter /\ [][C20_TickStep]_vars

\* Keep-alive has taken the IDs 0 and 2 around a call that is registered
\* under ID 1 and waits, and the transport is closed.
C20_Witness ==
  /\ kaIds = {0, 2}
  /\ cid["c1"] = 1 /\ cpc["c1"] = "wait" /\ 1 \in DOMAIN subs
  /\ conn = "closed"

\* C21: after Close has been called the dispatcher loop, the monitor and the
\* keep-alive goroutine have eventually all terminated (or the process has
\* ended), whatever the dispatcher was doing when Close was called.
C21_CloseTerminatesAll ==
  done ~> (panicked # "" \/ (dpc = "exited" /\ mpc = "exited" /\ kapc = "exited"))

\* The frame handleMessages took last.
LastFrame(log) == log[Len(log)]
FrameTaken == dlog' # dlog

\* C22: responses are routed by what they hold, not by the shape of the
\* frame they arrive in or of the frame that was sent: every element of an
\* array frame and the one response of an object frame is handled; an
\* id-routed response with a registered ID goes to that ID's slot; what a
\* call receives carries the call's ID; a batch that has stored as many
\* responses as it has requests, from however many frames, closes its
\* channel and returns them at the indexes of their requests.
C22_Step ==
  /\ FrameTaken =>
       LET f == LastFrame(dlog') IN
       /\ f.shape = "object" => (dleft' = 1 /\ dpc' = "route")
       /\ (f.shape = "array" /\ f.n > 0) => (dleft' = f.n /\ dpc' = "route")
  /\ (dpc = "route" /\ dpc' = "send") =>
       /\ dresp'.ID \in DOMAIN subs
       /\ dch' = subs[dresp'.ID].messages
  /\ \A p \in Callers :
       (cpc[p] = "wait" /\ cpc'[p] = "unreg" /\ cres'[p].resp # NilResp)
         => cres'[p].resp.ID = cid[p]

C22_BatchCollected ==
  \A b \in Batchers :
    /\ (bpc[b] = "wait" /\ bn[b] > 0 /\ bcount[b] = bn[b]) => BChan(b) \in closed
    /\ (bpc[b] = "ret" /\ berr[b] = "" /\ SeqToSet(brecv[b]) = SeqToSet(bids[b])
          /\ Len(brecv[b]) = bn[b])
         => \A i \in 1..bn[b] : bresp[b][i].ID = bids[b][i]

C22_RoutesByContent == []C22_BatchCollected /\ [][C22_Step]_vars

\* A batch of two was sent as one array; its responses came back in two
\* frames, a one-element array and a single object, the second request's
\* first, and the batch has returned both.
C22_Witness ==
  /\ dlog = <<ArrayFrame(1), ObjectFrame>>
  /\ bpc["b1"] = "ret" /\ berr["b1"] = "" /\ bn["b1"] = 2
  /\ brecv["b1"] = <<bids["b1"][2], bids["b1"][1]>>
  /\ bresp["b1"][1].ID = bids["b1"][1] /\ bresp["b1"][2].ID = bids["b1"][2]

\* C23: a frame that cannot be decoded (malformed, or empty) is dropped:
\* taking it changes nothing of the session (no slot is sent anything, subs
\* and counter stay as they are) and leaves the dispatcher at its select,
\* ready for the next frame.
C23_Step ==
  (FrameTaken /\ LastFrame(dlog').shape \in {"malformed", "empty"}) =>
    /\ dpc' = "select" /\ dleft' = dleft
    /\ UNCHANGED <<wreqs, out, kaIds, ret, coreVars, ncloses, callVars, batchVars, subVars,
                   resumeVars, dresp, dch, dtodo, dsnap>>

C23_UndecodableDropped == [][C23_Step]_vars

\* A malformed frame arrived while a call waited; the frame after it held
\* the call's response, which the call has received.
C23_Witness ==
  /\ dlog = <<MalformedFrame, ObjectFrame>>
  /\ cpc["c1"] \in {"unreg", "ret"} /\ cres["c1"].resp.ID = cid["c1"]
  /\ cid["c1"] = 0 /\ allocated = <<0>>

\* C24: a batch that waits for its responses eventually returns (or the
\* process has ended), also when the peer never answers one of its IDs;
\* stated for the first operation of a session, with the dispatcher at its
\* select when the batch starts to wait.
C24_BatchReturns ==
  \A b \in Batchers :
    (bpc[b] = "wait" /\ bn[b] > 0 /\ Len(allocated) = bn[b] /\ dpc = "select")
      ~> (bpc[b] = "ret" \/ panicked # "")

\* q holds every element of ids exactly once.
AnswersEachOnce(q, ids) ==
  /\ Len(q) = Len(ids)
  /\ \A i \in 1..Len(ids) : Cardinality({j \in 1..Len(q) : q[j].ID = ids[i]}) = 1

\* C25: syncBatchRequest returns a non-nil error exactly when encoding or
\* the send failed; when every ID was answered once it returns the vector of
\* n responses, the response for the i-th request at index i with the error
\* object it carried, whether or not some of them carry one.
C25_BatchErrorsInPlace ==
  ret.op = "syncBatchRequest" =>
    LET in == ret.sr
        rv == ret.rv IN
    /\ ~rv.err.isNil <=> (in.encodeFails \/ in.sendFails)
    /\ (~in.encodeFails /\ ~in.sendFails /\ Len(in.ids) > 0
          /\ AnswersEachOnce(in.arrivals, in.ids))
         => /\ ~rv.blocks
            /\ Len(rv.responses) = Len(in.ids)
            /\ \A i \in 1..Len(in.ids) :
                 /\ rv.responses[i].ID = in.ids[i]
                 /\ \E j \in 1..Len(in.arrivals) : rv.responses[i] = in.arrivals[j]

\* A batch of two has returned with a nil error: the response for its
\* second request arrived first and carries an error object, the other
\* carries none.
C25_Witness ==
  /\ ret.op = "syncBatchRequest"
  /\ Len(ret.sr.ids) = 2 /\ ~ret.sr.encodeFails /\ ~ret.sr.sendFails
  /\ ret.sr.arrivals[1].ID = ret.sr.ids[2] /\ ~ret.sr.arrivals[1].Error.isNil
  /\ ret.sr.arrivals[2].ID = ret.sr.ids[1] /\ ret.sr.arrivals[2].Error.isNil
  /\ ret.rv.err.isNil
  /\ ret.rv.responses = <<ret.sr.arrivals[2], ret.sr.arrivals[1]>>

\* C26: once the context of a subscription is cancelled its handler loop
\* eventually terminates (or the process has ended), whatever the loop was
\* doing, also when the handler is handing a value to a stream that nobody
\* reads any more.
C26_CancelStopsHandler ==
  \A s \in Subscribers :
    ctxDone[s] ~> (hpc[s] = "exited" \/ panicked # "")

\* The dispatcher is sending a notification, with the mutex held, in a send
\* that no goroutine will ever take: the handler loop of s has returned and
\* the channel is open.
BlockedOnStopped(s) ==
  /\ dpc = "nsend" /\ dch = SubChan(s)
  /\ hpc[s] = "exited" /\ SubChan(s) \notin closed

\* C27: after the context of a subscription was cancelled and its handler
\* loop has stopped, on a client that is not closed, the session stays
\* usable: no call is left registering or waiting behind a dispatcher that
\* is stuck on the stopped subscription.
C27_UsableAfterCancel ==
  \A s \in Subscribers : \A p \in Callers :
    (ctxDone[s] /\ hpc[s] = "exited" /\ ~done /\ panicked = "")
      => ~(BlockedOnStopped(s) /\ cpc[p] \in {"reg", "send", "wait"})

\* C28: on a response of the server BroadcastTransaction returns
\* ErrRejectedTx and no transaction id when the result is a string that
\* contains "rejected", and a non-nil error and no transaction id when the
\* response carries an error object and no result.
C28_BroadcastRejected ==
  (ret.op = "BroadcastTransaction" /\ ret.sr.err.isNil /\ ~ret.sr.res.isNil) =>
    /\ (ret.sr.res.Result.t = "string" /\ ContainsRejected(ret.sr.res.Result.s))
         => ret.rv = Returns(NoResult, ErrRejectedTx)
    /\ (~ret.sr.res.Error.isNil /\ ret.sr.res.Result.t = "nil")
         => (ret.rv.panic = "" /\ ~ret.rv.err.isNil /\ ret.rv.result = NoResult)
    /\ (ret.rv.panic = "" /\ ret.rv.err.isNil)
         => (ret.rv.result = ret.sr.res.Result /\ ret.rv.result.t = "string"
             /\ ret.rv.result.s # RejectedText)

\* BroadcastTransaction has returned ErrRejectedTx on a response that
\* carries an error object and no result.
C28_Witness ==
  /\ ret.op = "BroadcastTransaction"
  /\ ret.sr.err.isNil /\ ~ret.sr.res.isNil
  /\ ret.sr.res.Error = RpcError(1, "bad-txns-inputs-missingorspent")
  /\ ret.sr.res.Result = NilResult
  /\ ret.rv = Returns(NoResult, ErrRejectedTx)

\* C29: the dispatcher does not hold the mutex while it is in a send to a
\* slot, for id-routed responses and for notifications alike.
C29_NoLockWhileSending ==
  dpc \in {"send", "nsend"} => mu # "dispatcher"

\* C30: subs is iterated only by a task that holds the mutex, so while the
\* loop over all slots that Close triggers is under way no other task
\* writes the map: between the start and the end of that loop subs changes
\* only by the loop's own removals, never by a caller or a subscription
\* registering or unregistering a slot.
C30_Step ==
  (dpc = "closing" /\ subs' # subs) => (cpc' = cpc /\ spc' = spc /\ bpc' = bpc)

C30_MapUnderMutex == [][C30_Step]_vars

\* The IDs of the batch b is running.
BatchIdSet(b) == SeqToSet(bids[b])

\* C31: a batch that returns a result while the session is open has
\* received a response for every one of its IDs: a repeated response is not
\* counted as another ID, no element of the vector is nil, and none of its
\* IDs is left in subs.
C31_EveryIdAnswered ==
  \A b \in Batchers :
    (bpc[b] = "ret" /\ berr[b] = "" /\ bn[b] > 0 /\ ~done) =>
      /\ SeqToSet(brecv[b]) = BatchIdSet(b)
      /\ \A i \in 1..Len(bresp[b]) : bresp[b][i] # NilResp
      /\ BatchIdSet(b) \cap DOMAIN subs = {}

\* C35: whenever a batch has returned, with a result or with an encode or
\* send error, none of its IDs is a key of subs.
C35_BatchUnregistered ==
  \A b \in Batchers : bpc[b] = "ret" => BatchIdSet(b) \cap DOMAIN subs = {}

\* C36: a batch of zero requests that was sent eventually returns (or the
\* process has ended).
C36_EmptyBatchReturns ==
  \A b \in Batchers :
    (bpc[b] = "wait" /\ bn[b] = 0) ~> (bpc[b] = "ret" \/ panicked # "")

\* C33: while a resume task waits for its ticker or probes the server it
\* does not hold the mutex, so it never waits for a mutex it holds and other
\* operations can take the mutex.
C33_ResumeHoldsNoLock ==
  \A r \in Resumers : rpc[r] \in {"wait", "probe"} => mu # "resume"

\* The slots of subs that belong to subscriptions: a call or a batch
\* registers its slot with no method.
SubscriptionSlots == {id \in DOMAIN subs : subs[id].method # ""}

\* C34: a resume task is started only when subs holds the slot of some
\* subscription; a map that holds only call or batch slots starts none.
C34_Step ==
  (\E r \in Resumers : rpc[r] = "none" /\ rpc'[r] # "none") =>
    SubscriptionSlots # {}

C34_CallSlotsStartNoResume == [][C34_Step]_vars

\* The channels of the slots a call or a batch registered in S.
CallOrBatchChans(S) == {S[id].messages : id \in {k \in DOMAIN S : S[k].method = ""}}

\* C37: an inbound object with neither id nor method is delivered to no
\* slot, in particular not to the slot of ID 0.
C37_NoIdNoMethodDropped ==
  (ret.op = "handleResponse" /\ ret.sr.w.id = NoId /\ ret.sr.w.method = NoMethod)
    => ret.rv = {}

\* C38: a notification (an object with a non-empty method) is never
\* delivered to the slot of a call or of a batch; it goes to exactly the
\* subscriptions of its method.
C38_NotificationSkipsCalls ==
  (ret.op = "handleResponse" /\ ret.sr.w.method # NoMethod) =>
    /\ ret.rv \cap CallOrBatchChans(ret.sr.subs) = {}
    /\ ret.rv = {ret.sr.subs[id].messages :
                   id \in {k \in DOMAIN ret.sr.subs : ret.sr.subs[k].method = ret.sr.w.method}}

\* A headers notification with id 0 arrives while ID 0 is a call's slot, ID
\* 1 a batch's and ID 2 a headers subscription's: only the subscription
\* gets it.
C38_Witness ==
  /\ ret.op = "handleResponse"
  /\ ret.sr.w = [id |-> 0, method |-> HeadersMethod]
  /\ DOMAIN ret.sr.subs = {0, 1, 2}
  /\ ret.sr.subs[0] = Slot(CallChan("c1", 0), "")
  /\ ret.sr.subs[1] = Slot(BatchChan("b1", 1), "")
  /\ ret.sr.subs[2] = Slot(SubChan("s1"), HeadersMethod)
  /\ ret.rv = {SubChan("s1")}

\* C39: EnrichVin issues its lookups in consecutive batches of 1 to
\* DefaultBatchSize hashes, starting at vin 0 and each starting where the one
\* before ended; when no lookup fails the batches end at the last vin, so
\* every vin is covered exactly once, and the vector returned has one
\* element per vin, pairing vins[k] with the output vins[k].Vout of the
\* transaction of hash vins[k].TxID.
C39_EnrichVinBatches ==
  ret.op = "EnrichVin" =>
    LET vins == ret.sr.vins
        b == ret.rv.batches
        ends == [i \in 1..Len(b) |-> b[i].start + Len(b[i].hashes)]
    IN /\ \A i \in 1..Len(b) :
            /\ Len(b[i].hashes) \in 1..DefaultBatchSize
            /\ b[i].start = (IF i = 1 THEN 0 ELSE ends[i - 1])
            /\ \A j \in 1..Len(b[i].hashes) : b[i].hashes[j] = vins[b[i].start + j].TxID
       /\ ret.rv.err = NilErr =>
            /\ (IF Len(b) = 0 THEN 0 ELSE ends[Len(b)]) = Len(vins)
            /\ Len(ret.rv.result) = Len(vins)
            /\ \A k \in 1..Len(vins) :
                 ret.rv.result[k] =
                   [Vin |-> vins[k],
                    Prevout |-> VerboseTx(vins[k].TxID).Vout[vins[k].Vout + 1]]

\* A list of exactly two full batches was enriched with two lookups of
\* DefaultBatchSize hashes each.
C39_Witness ==
  /\ ret.op = "EnrichVin"
  /\ Len(ret.sr.vins) = 2 * DefaultBatchSize
  /\ ret.rv.err = NilErr
  /\ Len(ret.rv.batches) = 2
  /\ ret.rv.batches[2].start = DefaultBatchSize
  /\ Len(ret.rv.result) = 2 * DefaultBatchSize
====
